---- MODULE Spec2Model ----
(***************************************************************************)
(* Model of the DGraph import engine of graphrag.index.dgraph:             *)
(*   - DGraphImporter._batch_import (import_data.py) with the storage      *)
(*     validator (importer/validation.py) and the technical formatter and  *)
(*     execute_mutation (importer/utils.py);                               *)
(*   - ImportManager.import_data_type / import_all (import_manager.py);    *)
(*   - DGraphImporter.import_data (import_data.py).                        *)
(* The store is a sequence of committed nodes; a node is a function from   *)
(* predicate names to values, as the JSON objects handed to txn.mutate.    *)
(***************************************************************************)
EXTENDS Integers, Sequences, FiniteSets, TLC

VARIABLES
    data_type,          \* _batch_import argument
    conflict_strategy,  \* DGraphImporter.conflict_strategy
    batch_size,         \* DGraphImporter.batch_size
    data_list,          \* the record list handed to _batch_import
    store,              \* committed nodes of the target store, in commit order
    initLen,            \* number of nodes the store held before the importer ran
    pc,                 \* position of the importer
    i,                  \* loop variable of "for i in range(0, total, batch_size)"
    k,                  \* index (1-based) of the next item of the current batch
    mutations,          \* mutation list of the current batch
    imported,           \* running success count of the current call
    txns,               \* every transaction opened so far: status and call log
    batchLog,           \* one entry per batch processed by the current call
    lastCheck,          \* what the item loop did with the last record it handled
    runs,               \* one entry per finished _batch_import call
    startLen,           \* length of the store when the current call began
    faults,             \* transport faults injected so far
    directory,          \* data_dir: per type, the files its pattern finds
    files,              \* import_data_type: the files found for the type
    fpos,               \* import_data_type: index (1-based) of the next file
    all_data,           \* import_data_type: the aggregate
    fileLog,            \* import_data_type: one entry per file handled
    mpc,                \* position of ImportManager.import_data_type
    entry,              \* the operation called: import_data or import_all
    data_types,         \* import_data argument; <<>> stands for None and for []
    tpos,               \* index (1-based) of the next type of the type loop
    results,            \* the mapping being built by import_data / import_all
    typeLog,            \* one entry per type the type loop handled
    ipc,                \* position of the type loop
    call_fn,            \* the function applied on its own, None when none is
    call_arg,           \* its argument, as it is now
    call_arg0,          \* its argument, as it was given
    call_out            \* the results of the calls of call_fn made so far

bvars == <<data_type, conflict_strategy, batch_size, data_list, store, initLen,
           pc, i, k, mutations, imported, txns, batchLog, lastCheck, runs, startLen,
           faults>>

mvars == <<directory, files, fpos, all_data, fileLog, mpc>>

ivars == <<entry, data_types, tpos, results, typeLog, ipc>>

pvars == <<call_fn, call_arg, call_arg0, call_out>>

vars == <<bvars, mvars, ivars, pvars>>

-----------------------------------------------------------------------------
(* Bounds *)
MaxLen == 3        \* longest record list
MaxBatch == 2      \* largest batch size
MaxRuns == 2       \* _batch_import calls on the same list in one behaviour
MaxFaults == 1     \* transport faults in one behaviour

None == "None"     \* Python None / pandas NaN replaced by None

Min(a, b) == IF a < b THEN a ELSE b

RECURSIVE SumSeq(_)
SumSeq(s) == IF s = <<>> THEN 0 ELSE Head(s) + SumSeq(Tail(s))

-----------------------------------------------------------------------------
(* Entity type registry and validation rules *)

IMPORT_ORDER ==
    <<"text_unit", "document", "entity", "relationship", "community", "community_report">>

KnownTypes == {IMPORT_ORDER[n] : n \in 1..Len(IMPORT_ORDER)}

\* CONFIGS[data_type]["type"]
TypeName(t) ==
    CASE t = "text_unit" -> "TextUnit"
      [] t = "document" -> "Document"
      [] t = "entity" -> "Entity"
      [] t = "relationship" -> "Relationship"
      [] t = "community" -> "Community"
      [] t = "community_report" -> "CommunityReport"
      [] OTHER -> None

\* VALIDATION_RULES[t]["storage_layer"].get("id_format")
IdFormatRule(t) ==
    CASE t \in {"document", "text_unit"} -> "hash"
      [] t \in {"entity", "community", "community_report"} -> "uuid"
      [] OTHER -> None

\* VALIDATION_RULES[t]["storage_layer"].get("composite_unique")
CompositeFields(t) == IF t = "relationship" THEN {"source", "target"} ELSE {}

(* Id values.  An id is a token whose shape says which syntax it has:      *)
(*   u1, u2  canonical hyphenated UUIDs (36 characters)                    *)
(*   h1, h2  32 hexadecimal digits                                         *)
(*   h40     40 hexadecimal digits                                         *)
(*   h31     31 hexadecimal digits                                         *)
(*   h1\n    32 hexadecimal digits followed by a line feed                 *)
(*   x1      a string that is none of these                                *)
IdShape(id) ==
    CASE id \in {"u1", "u2"} -> "uuid36"
      [] id \in {"h1", "h2"} -> "hex32"
      [] id = "h40" -> "hex40"
      [] id = "h31" -> "hex31"
      [] id = "h1\n" -> "hex32nl"
      [] OTHER -> "junk"

\* uuid.UUID(s) strips 'urn:', 'uuid:', braces and hyphens and then wants
\* exactly 32 characters that int(.., 16) reads
UuidParses(id) == IdShape(id) \in {"uuid36", "hex32"}

\* re.match(r'^[0-9a-fA-F]{32,}$', s): '$' also matches before a line feed
\* that ends the string
HashMatches(id) == IdShape(id) \in {"hex32", "hex40", "hex32nl"}

\* StorageValidator.validate_id_format: TRUE when it returns, FALSE when it
\* raises StorageValidationError(ID_FORMAT)
validate_id_format(id, t) ==
    CASE IdFormatRule(t) = "uuid" -> UuidParses(id)
      [] IdFormatRule(t) = "hash" -> HashMatches(id)
      [] OTHER -> TRUE

-----------------------------------------------------------------------------
(* Store queries, as the store answers them *)

Has(rec, f) == f \in DOMAIN rec

\* the query of validate_unique_constraint: exists(func: eq(id, "<id>"))
IdExists(st, id) ==
    \E n \in 1..Len(st) : Has(st[n], "id") /\ st[n]["id"] = id

\* conditions built by validate_composite_unique (lines 345-348)
CompositeConditions(item, t) ==
    {f \in CompositeFields(t) : Has(item, f) /\ item[f] # None}

\* validate_composite_unique issues its query (lines 337-351 fall through)
CompositeQueryIssued(item, t) ==
    /\ CompositeFields(t) # {}
    /\ \A f \in CompositeFields(t) : Has(item, f)
    /\ CompositeConditions(item, t) # {}

\* the query of validate_composite_unique:
\*   exists(func: type(<data_type>)) @filter(eq(f1, ..) AND eq(f2, ..))
\* type(...) is given the registry key (data_type), not the registry type name
CompositeExists(st, item, t) ==
    \E n \in 1..Len(st) :
        /\ Has(st[n], "dgraph.type") /\ st[n]["dgraph.type"] = t
        /\ \A f \in CompositeConditions(item, t) :
              Has(st[n], f) /\ st[n][f] = item[f]

-----------------------------------------------------------------------------
(* Technical formatter *)

\* convert_value on the scalar values of the model (str is returned as is)
convert_value(v) == v

(* Values with structure.  Such a value is a record [kind, text, items]:   *)
(* kind none (None), str, datetime, tuple, set, list or dict; text is the  *)
(* text of a str and the instant of a datetime; items are the members of   *)
(* a tuple, set or list and the entries of a dict, an entry being a value  *)
(* of kind entry with the key as text and the entry's value as only item.  *)
Value(kind, text, items) == [kind |-> kind, text |-> text, items |-> items]

NoneValue == Value("none", "", <<>>)

\* datetime.isoformat() of the instants of the model
isoformat(instant) ==
    CASE instant = "t1" -> "2024-01-01T00:00:00"
      [] OTHER -> "2024-06-30T12:00:00"

RECURSIVE convert_value_nested(_)
\* convert_value on a value with structure: line 31 None, line 35 datetime,
\* line 54 set and tuple (list(value), the members as they are), line 58 list
\* (member by member), line 62 dict (entries whose value is None left out,
\* the others entry by entry), line 66 everything else
convert_value_nested(v) ==
    CASE v.kind = "none" -> v
      [] v.kind = "datetime" -> Value("str", isoformat(v.text), <<>>)
      [] v.kind \in {"set", "tuple"} -> Value("list", "", v.items)
      [] v.kind = "list" ->
            Value("list", "", [n \in 1..Len(v.items) |-> convert_value_nested(v.items[n])])
      [] v.kind = "dict" ->
            LET kept == SelectSeq(v.items, LAMBDA e : e.items[1].kind # "none")
            IN Value("dict", "",
                     [n \in 1..Len(kept) |->
                         Value("entry", kept[n].text,
                               << convert_value_nested(kept[n].items[1]) >>)])
      [] OTHER -> v

IsBlank(v) == v \in {"", " "}

\* fields kept by the loop of convert_to_dgraph_format (lines 221-231)
KeptFields(item) ==
    {f \in DOMAIN item : f # "type" /\ item[f] # None /\ ~IsBlank(item[f])}

\* the type tag chosen by lines 212-218; None when no tag is written
TypeTag(item, t) ==
    IF ~Has(item, "type") THEN TypeName(t) ELSE item["type"]

convert_to_dgraph_format(item, t) ==
    LET tag == TypeTag(item, t)
        keys == KeptFields(item) \cup (IF tag = None THEN {} ELSE {"dgraph.type"})
    IN [f \in keys |-> IF f = "dgraph.type" THEN tag ELSE convert_value(item[f])]

-----------------------------------------------------------------------------
(* DGraphImporter._batch_import *)

total == Len(data_list)

\* a slice that is empty when fewer than size records are left
BatchLen_DropsShortSlice(n, start, size) == IF start + size <= n THEN size ELSE 0

\* len(data_list[i:i+batch_size]) for a list of n records
BatchLen(n, start, size) == Min(start + size, n) - start

\* batch = data_list[i:i+self.batch_size]
BatchOf(lst, start, size) ==
    SubSeq(lst, start + 1, start + BatchLen(Len(lst), start, size))

batch == BatchOf(data_list, i, batch_size)

CurTxn == txns[Len(txns)]

\* the current transaction after one more call on it
Called(op, res, status) ==
    [txns EXCEPT ![Len(txns)] =
        [status |-> status, calls |-> Append(@.calls, <<op, res>>)]]

NoCheck == [run |-> 0]

\* the batch handler that leaves the transaction as it is
BatchHandler_NoDiscard(tx, calls) ==
    [status |-> tx.status, calls |-> tx.calls \o calls]

\* the batch handler that commits the transaction instead of discarding it
BatchHandler_Commits(tx, calls) ==
    [status |-> IF tx.status = "open" THEN "committed" ELSE tx.status,
     calls |-> tx.calls \o calls \o <<<<"commit", "ok">>>>]

\* lines 286-289: an exception inside the batch reaches the handler, which
\* discards the transaction; calls are the calls made up to the exception
BatchHandler(tx, calls) ==
    [status |-> IF tx.status = "open" THEN "discarded" ELSE tx.status,
     calls |-> tx.calls \o calls \o <<<<"discard", "ok">>>>]

\* entry of _batch_import (lines 209-213): an empty list returns at once
BatchImportEntry ==
    /\ UNCHANGED <<mvars, ivars, pvars>>
    /\ pc = "call"
    /\ imported' = 0
    /\ i' = 0
    /\ k' = 0
    /\ mutations' = <<>>
    /\ batchLog' = <<>>
    /\ lastCheck' = NoCheck
    /\ startLen' = Len(store)
    /\ pc' = IF data_list = <<>> THEN "return"
             ELSE IF batch_size = 0 THEN "raise"    \* range() arg 3 must not be zero
             ELSE "loop"
    /\ UNCHANGED <<data_type, conflict_strategy, batch_size, data_list, store,
                   initLen, txns, runs, faults>>

\* line 222: self.client.txn() opens the transaction of the batch
BeginBatch ==
    /\ UNCHANGED <<mvars, ivars, pvars>>
    /\ pc = "loop"
    /\ i < total
    /\ txns' = Append(txns, [status |-> "open", calls |-> <<>>])
    /\ mutations' = <<>>
    /\ k' = 1
    /\ pc' = "items"
    /\ UNCHANGED <<data_type, conflict_strategy, batch_size, data_list, store,
                   initLen, i, imported, batchLog, lastCheck, runs, startLen, faults>>

\* line 222 raises: the outer handler (lines 291-292) logs and the loop goes on
BeginBatchFails ==
    /\ UNCHANGED <<mvars, ivars, pvars>>
    /\ pc = "loop"
    /\ i < total
    /\ faults < MaxFaults
    /\ faults' = faults + 1
    /\ batchLog' = Append(batchLog,
          [size |-> Len(batch), muts |-> <<>>, outcome |-> "txn_failed",
           added |-> 0, errors |-> 0, txn |-> 0, at |-> Len(store)])
    /\ i' = i + batch_size
    /\ UNCHANGED <<data_type, conflict_strategy, batch_size, data_list, store,
                   initLen, pc, k, mutations, imported, txns, lastCheck, runs, startLen>>

\* an id key is enough for the record to count as having an id
HasId_KeyOnly(item) == Has(item, "id")

\* line 229: 'id' in item and item['id'] is not None
HasId(item) == Has(item, "id") /\ item["id"] # None

\* a record passing the id-format check whatever its id
PassesIdFormat_Always(item, t) == TRUE

\* lines 233-237: FALSE when the record is dropped by the id-format check
PassesIdFormat(item, t) == HasId(item) => validate_id_format(item["id"], t)

\* the existence query issued under every policy
IdQueryIssued_EveryPolicy(item, strategy, t) ==
    HasId(item) /\ PassesIdFormat(item, t)

\* line 242-243: the existence query is issued
IdQueryIssued(item, strategy, t) ==
    HasId(item) /\ PassesIdFormat(item, t) /\ strategy # "insert"

\* the id branch that never clears should_create
IdDecision_NeverSkips(item, st, strategy, t) == TRUE

\* the id branch checking existence under every policy, only upsert overwriting
IdDecision_InsertChecks(item, st, strategy, t) ==
    IF HasId(item) /\ PassesIdFormat(item, t) /\ IdExists(st, item["id"])
    THEN strategy = "upsert"
    ELSE TRUE

\* lines 240-258: should_create after the id branch
IdDecision(item, st, strategy, t) ==
    IF IdQueryIssued(item, strategy, t) /\ IdExists(st, item["id"])
    THEN strategy # "skip"
    ELSE TRUE

\* should_create decided by the composite check whenever its query is made
should_create_LastCheckWins(item, st, strategy, t) ==
    IF CompositeQueryIssued(item, t)
    THEN ~(CompositeExists(st, item, t) /\ strategy = "skip")
    ELSE IdDecision(item, st, strategy, t)

\* lines 260-267: the composite check only ever clears should_create
should_create(item, st, strategy, t) ==
    IF /\ CompositeQueryIssued(item, t)
       /\ CompositeExists(st, item, t)
       /\ strategy = "skip"
    THEN FALSE
    ELSE IdDecision(item, st, strategy, t)

\* the calls the item loop makes on the transaction for one record
ItemCalls(item, strategy, t) ==
    (IF IdQueryIssued(item, strategy, t) THEN <<<<"query_id", "ok">>>> ELSE <<>>)
    \o (IF CompositeQueryIssued(item, t) THEN <<<<"query_composite", "ok">>>> ELSE <<>>)

\* a node the importer committed earlier carries the record's (source, target)
PairCommittedByImporter(item, st, first) ==
    /\ Has(item, "source") /\ Has(item, "target")
    /\ item["source"] # None /\ item["target"] # None
    /\ \E n \in (first + 1)..Len(st) :
          /\ Has(st[n], "source") /\ Has(st[n], "target")
          /\ st[n]["source"] = item["source"] /\ st[n]["target"] = item["target"]

\* the storage-layer validation errors raised for one record (lines 235, 249
\* and 263) when every query answers
RaisedFor(item, st, strategy, t) ==
    (IF HasId(item) /\ ~validate_id_format(item["id"], t) THEN {"ID_FORMAT"} ELSE {})
    \cup (IF IdQueryIssued(item, strategy, t) /\ IdExists(st, item["id"])
          THEN {"UNIQUE"} ELSE {})
    \cup (IF /\ PassesIdFormat(item, t)
             /\ CompositeQueryIssued(item, t)
             /\ CompositeExists(st, item, t)
          THEN {"COMPOSITE_UNIQUE"} ELSE {})

CheckOf(item, created, fault) ==
    [run |-> Len(runs) + 1, item |-> item, pos |-> i + k,
     idInStore |-> HasId(item) /\ IdExists(store, item["id"]),
     pairByImporter |-> PairCommittedByImporter(item, store, initLen),
     raised |-> RaisedFor(item, store, conflict_strategy, data_type),
     queries |-> IF PassesIdFormat(item, data_type)
                 THEN ItemCalls(item, conflict_strategy, data_type) ELSE <<>>,
     created |-> created, fault |-> fault]

\* lines 227-272 for one record, every query answering
CheckItem ==
    /\ UNCHANGED <<mvars, ivars, pvars>>
    /\ pc = "items"
    /\ k <= Len(batch)
    /\ LET item == batch[k]
           passes == PassesIdFormat(item, data_type)
           create == passes /\ should_create(item, store, conflict_strategy, data_type)
       IN /\ txns' = IF passes
                     THEN [txns EXCEPT ![Len(txns)].calls =
                              @ \o ItemCalls(item, conflict_strategy, data_type)]
                     ELSE txns
          /\ mutations' = IF create
                          THEN Append(mutations, convert_to_dgraph_format(item, data_type))
                          ELSE mutations
          /\ lastCheck' = CheckOf(item, create, "none")
    /\ k' = k + 1
    /\ pc' = IF k = Len(batch) THEN "exec" ELSE "items"
    /\ UNCHANGED <<data_type, conflict_strategy, batch_size, data_list, store,
                   initLen, i, imported, batchLog, runs, startLen, faults>>

\* a query of the item loop raises a transport error: neither handler of the
\* loop catches it, the batch handler (lines 286-289) discards the transaction
CheckItemQueryFails ==
    /\ UNCHANGED <<mvars, ivars, pvars>>
    /\ pc = "items"
    /\ k <= Len(batch)
    /\ faults < MaxFaults
    /\ LET item == batch[k]
       IN /\ PassesIdFormat(item, data_type)
          /\ \E q \in {"query_id", "query_composite"} :
               /\ q = "query_id" => IdQueryIssued(item, conflict_strategy, data_type)
               /\ q = "query_composite" => CompositeQueryIssued(item, data_type)
               /\ LET before == IF q = "query_composite"
                                   /\ IdQueryIssued(item, conflict_strategy, data_type)
                                THEN <<<<"query_id", "ok">>>> ELSE <<>>
                  IN txns' = [txns EXCEPT ![Len(txns)] =
                        BatchHandler(@, before \o <<<<q, "raise">>>>)]
               /\ lastCheck' = CheckOf(item, FALSE, q)
          /\ batchLog' = Append(batchLog,
                [size |-> Len(batch), muts |-> <<>>, outcome |-> "query_failed",
                 added |-> 0, errors |-> 0, txn |-> Len(txns), at |-> Len(store)])
    /\ faults' = faults + 1
    /\ i' = i + batch_size
    /\ pc' = "loop"
    /\ UNCHANGED <<data_type, conflict_strategy, batch_size, data_list, store,
                   initLen, k, mutations, imported, runs, startLen>>

\* execute_mutation sending one set-mutate call per mutation
execute_mutation_PerRecord(muts, out) ==
    [success_count |-> IF out = "ok" THEN Len(muts) ELSE 0,
     errors |-> IF out = "ok" THEN <<>> ELSE <<"mutation error">>,
     status |-> IF out = "ok" THEN "committed" ELSE "discarded",
     calls |-> [n \in 1..Len(muts) |-> <<"mutate", "ok">>]
               \o <<<<"commit", IF out = "ok" THEN "ok" ELSE "raise">>>>]

\* execute_mutation counting the mutations once the mutate call went through
execute_mutation_CountsMutated(muts, out) ==
    [success_count |-> IF out = "mutate_raise" THEN 0 ELSE Len(muts),
     errors |-> IF out = "ok" THEN <<>> ELSE <<"mutation error">>,
     status |-> IF out = "ok" THEN "committed" ELSE "discarded",
     calls |-> (IF out = "mutate_raise"
                THEN <<<<"mutate", "raise">>>>
                ELSE <<<<"mutate", "ok">>, <<"commit", IF out = "ok" THEN "ok" ELSE "raise">>>>)
               \o (IF out = "ok" THEN <<>> ELSE <<<<"discard", "ok">>>>)]

\* execute_mutation reporting the size of the mutation set also on failure
execute_mutation_CountsFailure(muts, out) ==
    [success_count |-> Len(muts),
     errors |-> IF out = "ok" THEN <<>> ELSE <<"mutation error">>,
     status |-> IF out = "ok" THEN "committed" ELSE "discarded",
     calls |-> <<<<"mutate", "ok">>, <<"commit", "ok">>>>]

\* execute_mutation(txn, mutations) for a non-empty list; out is what the
\* transport does: "ok", "mutate_raise" or "commit_raise"
execute_mutation(muts, out) ==
    IF out = "ok"
    THEN [success_count |-> Len(muts), errors |-> <<>>, status |-> "committed",
          calls |-> <<<<"mutate", "ok">>, <<"commit", "ok">>>>]
    ELSE [success_count |-> 0, errors |-> <<"mutation error">>,
          status |-> "discarded",
          calls |-> (IF out = "mutate_raise"
                     THEN <<<<"mutate", "raise">>>>
                     ELSE <<<<"mutate", "ok">>, <<"commit", "raise">>>>)
                    \o <<<<"discard", "ok">>>>]

\* line 284 after execute_mutation: txn.commit() on the transaction that
\* execute_mutation already finished raises
RecommitCalls == <<<<"commit", "raise">>>>

\* lines 274-294, the mutation set is non-empty
FinishBatch(out) ==
    /\ UNCHANGED <<mvars, ivars, pvars>>
    /\ pc = "exec"
    /\ mutations # <<>>
    /\ LET r == execute_mutation(mutations, out)
       IN /\ imported' = imported + r.success_count
          /\ store' = IF out = "ok" THEN store \o mutations ELSE store
          /\ txns' = [txns EXCEPT ![Len(txns)] =
                BatchHandler([status |-> r.status, calls |-> @.calls \o r.calls],
                             RecommitCalls)]
          /\ batchLog' = Append(batchLog,
                [size |-> Len(batch), muts |-> mutations,
                 outcome |-> IF out = "ok" THEN "committed" ELSE out,
                 added |-> r.success_count, errors |-> Len(r.errors),
                 txn |-> Len(txns), at |-> Len(store)])
    /\ i' = i + batch_size
    /\ pc' = "loop"
    /\ mutations' = <<>>
    /\ UNCHANGED <<data_type, conflict_strategy, batch_size, data_list, initLen,
                   k, lastCheck, runs, startLen>>

FinishBatchCommitted ==
    /\ FinishBatch("ok")
    /\ UNCHANGED faults

FinishBatchMutationFails ==
    /\ faults < MaxFaults
    /\ \E out \in {"mutate_raise", "commit_raise"} : FinishBatch(out)
    /\ faults' = faults + 1

\* lines 275-289, every record of the batch was dropped: no mutate call, the
\* transaction is committed as it is
FinishBatchEmpty ==
    /\ UNCHANGED <<mvars, ivars, pvars>>
    /\ pc = "exec"
    /\ mutations = <<>>
    /\ \E out \in {"ok", "commit_raise"} :
         /\ out = "commit_raise" => faults < MaxFaults
         /\ faults' = IF out = "ok" THEN faults ELSE faults + 1
         /\ txns' = IF out = "ok"
                    THEN Called("commit", "ok", "committed")
                    ELSE [txns EXCEPT ![Len(txns)] =
                            BatchHandler(@, <<<<"commit", "raise">>>>)]
         /\ batchLog' = Append(batchLog,
               [size |-> Len(batch), muts |-> <<>>,
                outcome |-> IF out = "ok" THEN "empty" ELSE "empty_commit_failed",
                added |-> 0, errors |-> 0, txn |-> Len(txns), at |-> Len(store)])
    /\ i' = i + batch_size
    /\ pc' = "loop"
    /\ UNCHANGED <<data_type, conflict_strategy, batch_size, data_list, store,
                   initLen, k, mutations, imported, lastCheck, runs, startLen>>

\* line 296 (or line 210): return imported
BatchImportReturn ==
    /\ UNCHANGED <<mvars, ivars, pvars>>
    /\ \/ pc = "loop" /\ i >= total
       \/ pc = "return"
    /\ runs' = Append(runs,
          [before |-> SubSeq(store, 1, startLen), after |-> store,
           returned |-> imported, log |-> batchLog])
    /\ pc' = "done"
    /\ UNCHANGED <<data_type, conflict_strategy, batch_size, data_list, store,
                   initLen, i, k, mutations, imported, txns, batchLog, lastCheck,
                   startLen, faults>>

\* DGraphImporter.import_from_dataframe: an empty frame returns 0 without a
\* call of _batch_import
ImportFromDataframe ==
    /\ UNCHANGED <<mvars, ivars, pvars>>
    /\ pc \in {"idle", "done"}
    /\ Len(runs) < MaxRuns
    /\ data_list # <<>>
    /\ pc' = "call"
    /\ UNCHANGED <<data_type, conflict_strategy, batch_size, data_list, store,
                   initLen, i, k, mutations, imported, txns, batchLog, lastCheck,
                   runs, startLen, faults>>

ImportEmptyDataframe ==
    /\ UNCHANGED <<mvars, ivars, pvars>>
    /\ pc \in {"idle", "done"}
    /\ Len(runs) < MaxRuns
    /\ data_list = <<>>
    /\ runs' = Append(runs,
          [before |-> store, after |-> store, returned |-> 0, log |-> <<>>])
    /\ pc' = "done"
    /\ UNCHANGED <<data_type, conflict_strategy, batch_size, data_list, store,
                   initLen, i, k, mutations, imported, txns, batchLog, lastCheck,
                   startLen, faults>>

-----------------------------------------------------------------------------
(* Inputs *)

Strategies == {"insert", "upsert", "skip"}

\* business records of type entity: the entity converter writes the row's own
\* type value into "type"; a frame imported directly has no "type" column
EntityRecords ==
    { [id |-> "u1", type |-> "PERSON"],
      [id |-> "u2", type |-> "PERSON"],
      [id |-> "x1", type |-> "PERSON"],
      [id |-> None, type |-> "PERSON"] }

\* business records of type relationship
RelationshipRecords ==
    { [id |-> "u1", source |-> "A", target |-> "B", type |-> "Relationship"],
      [id |-> "u2", source |-> "A", target |-> "B", type |-> "Relationship"],
      [id |-> None, source |-> "A", target |-> "B", type |-> "Relationship"],
      [id |-> "x1", source |-> "A", target |-> None] }

RecordsOf(t) == IF t = "entity" THEN EntityRecords ELSE RelationshipRecords

\* what the store may hold before the importer runs
InitialStores(t) ==
    IF t = "entity"
    THEN { <<>>, << [id |-> "u1", title |-> "old"] @@ ("dgraph.type" :> "Entity") >> }
    ELSE { <<>>,
           << [id |-> "u2", source |-> "A", target |-> "B"]
              @@ ("dgraph.type" :> "relationship") >> }

SeqsUpTo(S, n) == UNION {[1..m -> S] : m \in 0..n}

\* records of a list handed over without an id key
KeylessRecords(t) ==
    IF t = "entity" THEN { [type |-> "PERSON"] }
    ELSE { [source |-> "A", target |-> "B"] }

\* the record lists of type t: up to MaxLen records with an id key, or fewer
\* with or without
RecordLists(t) ==
    SeqsUpTo(RecordsOf(t), MaxLen)
    \cup SeqsUpTo(RecordsOf(t) \cup KeylessRecords(t), MaxLen - 1)

NoDirectory == [t \in KnownTypes |-> <<>>]

\* the import manager is not in use
ManagerIdle ==
    /\ directory = NoDirectory
    /\ files = <<>>
    /\ fpos = 0
    /\ all_data = <<>>
    /\ fileLog = <<>>
    /\ mpc = "idle"

\* the type loop is not in use
\* no function is applied on its own
PureIdle ==
    /\ call_fn = None
    /\ call_arg = None
    /\ call_arg0 = None
    /\ call_out = <<>>

TypeLoopIdle ==
    /\ entry = "import_from_dataframe"
    /\ data_types = <<>>
    /\ tpos = 0
    /\ results = [t \in {} |-> 0]
    /\ typeLog = <<>>
    /\ ipc = "idle"

InitBatch ==
    /\ data_type \in {"entity", "relationship"}
    /\ conflict_strategy \in Strategies
    /\ batch_size \in 1..MaxBatch
    /\ data_list \in RecordLists(data_type)
    /\ store \in InitialStores(data_type)
    /\ initLen = Len(store)
    /\ pc = "idle"
    /\ i = 0
    /\ k = 0
    /\ mutations = <<>>
    /\ imported = 0
    /\ txns = <<>>
    /\ batchLog = <<>>
    /\ lastCheck = NoCheck
    /\ runs = <<>>
    /\ startLen = 0
    /\ faults = 0
    /\ ManagerIdle
    /\ TypeLoopIdle
    /\ PureIdle

NextBatch ==
    \/ ImportFromDataframe
    \/ ImportEmptyDataframe
    \/ BatchImportEntry
    \/ BeginBatch
    \/ BeginBatchFails
    \/ CheckItem
    \/ CheckItemQueryFails
    \/ FinishBatchCommitted
    \/ FinishBatchMutationFails
    \/ FinishBatchEmpty
    \/ BatchImportReturn

Init == InitBatch

Next == NextBatch

Spec == Init /\ [][Next]_vars

-----------------------------------------------------------------------------
(* Converters: BaseConverter and its six subclasses *)

\* DATA_TYPE_FIELDS[t]["required_fields"]
RequiredFields(t) ==
    CASE t = "document" -> {"id", "title", "text"}
      [] t = "text_unit" -> {"id", "text"}
      [] t = "entity" -> {"id", "title", "type", "description"}
      [] t = "relationship" -> {"id", "source", "target"}
      [] t = "community" -> {"id", "community", "level", "title"}
      [] t = "community_report" -> {"id", "community", "full_content_json"}
      [] OTHER -> {}

\* DATA_TYPE_FIELDS[t]["optional_fields"]
OptionalFields(t) ==
    CASE t = "document" ->
            {"human_readable_id", "creation_date", "metadata", "text_unit_ids"}
      [] t = "text_unit" ->
            {"human_readable_id", "n_tokens", "document_ids", "entity_ids",
             "relationship_ids", "covariate_ids"}
      [] t = "entity" ->
            {"human_readable_id", "frequency", "degree", "x", "y", "text_unit_ids"}
      [] t = "relationship" ->
            {"human_readable_id", "description", "weight", "combined_degree",
             "text_unit_ids", "type"}
      [] t = "community" ->
            {"human_readable_id", "parent", "size", "period", "children",
             "entity_ids", "relationship_ids", "text_unit_ids", "name", "members"}
      [] t = "community_report" ->
            {"human_readable_id", "summary", "title", "findings", "rating",
             "explanation", "create_time", "period", "level", "entity_ids",
             "text_unit_ids", "data", "created_at"}
      [] OTHER -> {}

\* self.type_name.lower(), the key the converters use to look rules up
LowerTypeName(t) ==
    CASE t = "text_unit" -> "textunit"
      [] t = "community_report" -> "communityreport"
      [] OTHER -> t

\* get_validation_rules(key, "business_layer").get("required_fields", [])
BusinessRequiredFields(key) == RequiredFields(key)

\* FileValidator.validate_columns: TRUE when it returns, FALSE when it raises
\* FileValidationError(MISSING_COLUMNS)
validate_columns(table, t) == RequiredFields(t) \subseteq table.columns

\* the validate(data_frame) of the type's converter: TextUnitConverter looks
\* at its config, the others at get_data_type_fields(type_name.lower())
ConverterValidate(table, t) ==
    IF t = "text_unit"
    THEN RequiredFields(t) \subseteq table.columns
    ELSE RequiredFields(LowerTypeName(t)) \subseteq table.columns

\* is_valid_field of process_fields
IsValidField(row, f) == Has(row, f) /\ row[f] # None

(* Values.  A value is a token: a Python str is written as its text        *)
(* ("abc", "7", "7.5"), a Python number as its literal after a hash        *)
(* ("#7" the int 7, "#7.0" and "#7.5" floats), None as None.               *)

\* config["numeric_fields"]: the declared kind of field f of type t, or None
NumericKind(t, f) ==
    CASE t = "text_unit" /\ f = "n_tokens" -> "int"
      [] t = "entity" /\ f \in {"frequency", "degree"} -> "int"
      [] t = "entity" /\ f \in {"x", "y"} -> "float"
      [] t = "relationship" /\ f = "weight" -> "float"
      [] t = "relationship" /\ f = "combined_degree" -> "int"
      [] t = "community" /\ f \in {"community", "level", "size", "parent"} -> "int"
      [] t = "community_report" /\ f \in {"rating", "level"} -> "int"
      [] OTHER -> None

NumericFields(t) ==
    {f \in {"n_tokens", "frequency", "degree", "x", "y", "weight", "combined_degree",
            "community", "level", "size", "parent", "rating"} :
        NumericKind(t, f) # None}

\* int(v): None when it raises ValueError or TypeError
IntOf(v) ==
    CASE v \in {"1", "#1", "#1.0"} -> "#1"
      [] v \in {"7", "#7", "#7.0", "#7.5"} -> "#7"
      [] OTHER -> None

\* float(v): None when it raises ValueError or TypeError
FloatOf(v) ==
    CASE v \in {"1", "#1", "#1.0"} -> "#1.0"
      [] v \in {"7", "#7", "#7.0"} -> "#7.0"
      [] v \in {"7.5", "#7.5"} -> "#7.5"
      [] OTHER -> None

\* field_type(row[field]) of line 150
Coerce(kind, v) == IF kind = "int" THEN IntOf(v) ELSE FloatOf(v)

\* BaseConverter.process_fields: the type discriminator, over it the copy of
\* the required and optional fields that are present and not null (lines
\* 144-147), over that the numeric fields whose coercion does not raise
\* (lines 149-152)
process_fields(row, t) ==
    LET copied == {f \in RequiredFields(t) \cup OptionalFields(t) : IsValidField(row, f)}
        coerced == {f \in NumericFields(t) :
                       IsValidField(row, f) /\ Coerce(NumericKind(t, f), row[f]) # None}
    IN [f \in copied \cup coerced \cup {"type"} |->
           IF f \in coerced THEN Coerce(NumericKind(t, f), row[f])
           ELSE IF f \in copied THEN row[f]
           ELSE TypeName(t)]

\* the types whose converter keeps BaseConverter.post_process
UsesBasePostProcess(t) == t \in {"text_unit", "document", "entity", "community_report"}

\* validate_converted_data looks at the first records only
SampleLimit == 5

\* BusinessValidator.validate_required_fields on one record
MissingFields(rec, key) == BusinessRequiredFields(key) \ DOMAIN rec

\* a text of 10001 characters
LongText == "a text of 10001 characters"

\* len(str(value)) of the values of the model; the values not listed are
\* texts of 2 to 36 characters
StrLen(v) ==
    CASE v = LongText -> 10001
      [] v = "" -> 0
      [] v \in {" ", "v", "A", "B", "1", "7", "#1", "#7"} -> 1
      [] v = None -> 4
      [] OTHER -> 2

\* rules.get("min_<f>_length") of the business layer of key, 0 when there is
\* none (validation_rules.py line 51)
MinLength(key, f) == IF key = "document" /\ f = "content" THEN 1 ELSE 0

\* rules.get("max_<f>_length") of the business layer of key, 0 when there is
\* none (validation_rules.py line 69)
MaxLength(key, f) == IF key = "text_unit" /\ f = "text" THEN 10000 ELSE 0

\* BusinessValidator.validate_field_value: the code of the error it raises,
\* "ok" when it returns; no business layer declares valid_types
validate_field_value(rec, f, rule, key) ==
    IF ~Has(rec, f) THEN "ok"
    ELSE IF rule = "min_length" /\ MinLength(key, f) # 0
    THEN (IF StrLen(rec[f]) < MinLength(key, f) THEN "MIN_LENGTH" ELSE "ok")
    ELSE IF rule = "max_length" /\ MaxLength(key, f) # 0
    THEN (IF StrLen(rec[f]) > MaxLength(key, f) THEN "MAX_LENGTH" ELSE "ok")
    ELSE "ok"

\* the errors of lines 199-206 for one record
FieldValueErrors(rec, key) ==
    { validate_field_value(rec, f, rule, key) :
         f \in DOMAIN rec, rule \in {"min_length", "max_length", "valid_values"} }
    \ {"ok"}

\* BaseConverter.validate_converted_data: TRUE when it returns, FALSE when it
\* raises BusinessValidationError
validate_converted_data(recs, t) ==
    \A n \in 1..Min(Len(recs), SampleLimit) :
        /\ MissingFields(recs[n], LowerTypeName(t)) = {}
        /\ FieldValueErrors(recs[n], LowerTypeName(t)) = {}

\* the code of the error validate_converted_data raises: that of the first
\* sampled record in error, its missing fields being looked at first
ConvertedDataError(recs, t) ==
    LET key == LowerTypeName(t)
        bad == {n \in 1..Min(Len(recs), SampleLimit) :
                   MissingFields(recs[n], key) # {} \/ FieldValueErrors(recs[n], key) # {}}
        first == CHOOSE n \in bad : \A m \in bad : n <= m
    IN IF MissingFields(recs[first], key) # {} THEN "MISSING_FIELDS"
       ELSE CHOOSE c \in FieldValueErrors(recs[first], key) : TRUE

\* convert(data_frame) of the type's converter
Convert(table, t) ==
    IF ~ConverterValidate(table, t)
    THEN [ok |-> FALSE, code |-> "ValueError", records |-> <<>>]
    ELSE LET recs == [n \in 1..Len(table.rows) |-> process_fields(table.rows[n], t)]
         IN IF UsesBasePostProcess(t) /\ ~validate_converted_data(recs, t)
            THEN [ok |-> FALSE, code |-> ConvertedDataError(recs, t), records |-> <<>>]
            ELSE [ok |-> TRUE, code |-> "ok", records |-> recs]

-----------------------------------------------------------------------------
(* ImportManager *)

\* one pass of the file loop of import_data_type (lines 186-248): load_dataframe
\* then convert_data; any exception is caught by one of the two handlers
ProcessFile(file, t) ==
    IF ~file.readable
    THEN [ok |-> FALSE, code |-> "read error", records |-> <<>>]
    ELSE IF ~validate_columns(file.table, t)
    THEN [ok |-> FALSE, code |-> "MISSING_COLUMNS", records |-> <<>>]
    ELSE Convert(file.table, t)

\* a variant of extend that puts the new records in front
extend_Prepends(acc, recs) == recs \o acc

\* line 225: all_data.extend(converted_data)
extend(acc, recs) == acc \o recs

EmptyMap == [t \in {} |-> 0]

\* a variant of Put that forgets the entries made before
Put_ForgetsEarlier(map, t, v) == [x \in {t} |-> v]

\* results[t] = v
Put(map, t, v) == [x \in DOMAIN map \cup {t} |-> IF x = t THEN v ELSE map[x]]

\* ImportManager.import_data_type up to the file loop (lines 172-184)
ImportDataTypeCall ==
    /\ mpc = "call"
    /\ data_type \in KnownTypes
    /\ files' = directory[data_type]
    /\ fpos' = 1
    /\ all_data' = <<>>
    /\ fileLog' = <<>>
    /\ mpc' = IF directory[data_type] = <<>> THEN "done" ELSE "files"
    /\ UNCHANGED <<pvars, bvars, ivars, directory>>

\* one file loads and converts: its records extend the aggregate
FileConverted ==
    /\ mpc = "files"
    /\ fpos <= Len(files)
    /\ LET r == ProcessFile(files[fpos], data_type)
       IN /\ r.ok
          /\ all_data' = extend(all_data, r.records)
          /\ fileLog' = Append(fileLog, [code |-> r.code, records |-> r.records])
    /\ fpos' = fpos + 1
    /\ UNCHANGED <<pvars, bvars, ivars, directory, files, mpc>>

\* one file fails in load or convert: logged, the loop goes on (lines 241-248)
FileFails ==
    /\ mpc = "files"
    /\ fpos <= Len(files)
    /\ LET r == ProcessFile(files[fpos], data_type)
       IN /\ ~r.ok
          /\ fileLog' = Append(fileLog, [code |-> r.code, records |-> <<>>])
    /\ fpos' = fpos + 1
    /\ UNCHANGED <<pvars, bvars, ivars, directory, files, all_data, mpc>>

\* lines 250-251: return all_data
ImportDataTypeReturn ==
    /\ mpc = "files"
    /\ fpos > Len(files)
    /\ mpc' = "done"
    /\ UNCHANGED <<pvars, bvars, ivars, directory, files, fpos, all_data, fileLog>>

NextManager ==
    \/ ImportDataTypeCall
    \/ FileConverted
    \/ FileFails
    \/ ImportDataTypeReturn

-----------------------------------------------------------------------------
(* The type loops: DGraphImporter.import_data and ImportManager.import_all *)

\* a variant of TypesToImport without line 82: a list naming 'all' is kept
TypesToImport_KeepsList(arg) == IF arg = <<>> THEN IMPORT_ORDER ELSE arg

\* lines 80-82 of import_data.py: the types import_data goes through
TypesToImport(arg) ==
    LET given == IF arg = <<>> THEN IMPORT_ORDER ELSE arg
    IN IF \E n \in 1..Len(given) : given[n] = "all" THEN IMPORT_ORDER ELSE given

\* the list the called operation iterates over
LoopTypes == IF entry = "import_all" THEN IMPORT_ORDER ELSE TypesToImport(data_types)

\* entry of import_data (lines 70-82) or import_all (line 146)
TypeLoopCall ==
    /\ ipc = "call"
    /\ tpos' = 1
    /\ results' = EmptyMap
    /\ typeLog' = <<>>
    /\ ipc' = "loop"
    /\ UNCHANGED <<pvars, bvars, mvars, entry, data_types>>

\* import_data lines 86-88: an unknown type is skipped
SkipUnknownType ==
    /\ ipc = "loop"
    /\ tpos <= Len(LoopTypes)
    /\ LoopTypes[tpos] \notin KnownTypes
    /\ tpos' = tpos + 1
    /\ UNCHANGED <<pvars, bvars, mvars, entry, data_types, results, typeLog, ipc>>

\* the loop body starts on a type: import_data_type is called
StartType ==
    /\ ipc = "loop"
    /\ tpos <= Len(LoopTypes)
    /\ LoopTypes[tpos] \in KnownTypes
    /\ data_type' = LoopTypes[tpos]
    /\ mpc' = "call"
    /\ typeLog' = Append(typeLog,
          [type |-> LoopTypes[tpos], outcome |-> "running",
           before |-> Len(store), after |-> Len(store)])
    /\ ipc' = "manager"
    /\ UNCHANGED <<pvars, conflict_strategy, batch_size, data_list, store, initLen, pc, i, k,
                   mutations, imported, txns, batchLog, lastCheck, runs, startLen,
                   faults, directory, files, fpos, all_data, fileLog,
                   entry, data_types, tpos, results>>

\* the type's loop body ends with the given outcome
TypeEnds(outcome) ==
    typeLog' = [typeLog EXCEPT ![Len(typeLog)] =
                   [@ EXCEPT !.outcome = outcome, !.after = Len(store)]]

\* import_all lines 150-153: a non-empty result is kept
ImportAllCollect ==
    /\ entry = "import_all"
    /\ ipc = "manager"
    /\ mpc = "done"
    /\ results' = IF all_data = <<>> THEN results
                  ELSE Put(results, data_type, all_data)
    /\ TypeEnds(IF all_data = <<>> THEN "empty" ELSE "imported")
    /\ tpos' = tpos + 1
    /\ ipc' = "loop"
    /\ mpc' = "idle"
    /\ UNCHANGED <<pvars, bvars, directory, files, fpos, all_data, fileLog, entry, data_types>>

\* import_data lines 98-101: nothing was found for the type
TypeEmpty ==
    /\ entry = "import_data"
    /\ ipc = "manager"
    /\ mpc = "done"
    /\ all_data = <<>>
    /\ results' = Put(results, data_type, 0)
    /\ TypeEnds("empty")
    /\ tpos' = tpos + 1
    /\ ipc' = "loop"
    /\ mpc' = "idle"
    /\ UNCHANGED <<pvars, bvars, directory, files, fpos, all_data, fileLog, entry, data_types>>

\* import_data line 104: _batch_import is called on the converted records
TypeBatchImportCall ==
    /\ entry = "import_data"
    /\ ipc = "manager"
    /\ mpc = "done"
    /\ all_data # <<>>
    /\ data_list' = all_data
    /\ pc' = "call"
    /\ ipc' = "batch"
    /\ mpc' = "idle"
    /\ UNCHANGED <<pvars, data_type, conflict_strategy, batch_size, store, initLen, i, k,
                   mutations, imported, txns, batchLog, lastCheck, runs, startLen,
                   faults, directory, files, fpos, all_data, fileLog,
                   entry, data_types, tpos, results, typeLog>>

\* import_data lines 105-107: the count returned by _batch_import is recorded
TypeImported ==
    /\ ipc = "batch"
    /\ pc = "done"
    /\ results' = Put(results, data_type, imported)
    /\ TypeEnds("imported")
    /\ tpos' = tpos + 1
    /\ ipc' = "loop"
    /\ pc' = "idle"
    /\ UNCHANGED <<data_type, conflict_strategy, batch_size, data_list, store, initLen,
                   i, k, mutations, imported, txns, batchLog, lastCheck, runs,
                   startLen, faults, mvars, entry, data_types, pvars>>

\* import_data lines 109-113: the type's import raised
TypeRaised ==
    /\ ipc = "batch"
    /\ pc = "raise"
    /\ results' = Put(results, data_type, 0)
    /\ TypeEnds("raised")
    /\ tpos' = tpos + 1
    /\ ipc' = "loop"
    /\ pc' = "idle"
    /\ UNCHANGED <<data_type, conflict_strategy, batch_size, data_list, store, initLen,
                   i, k, mutations, imported, txns, batchLog, lastCheck, runs,
                   startLen, faults, mvars, entry, data_types, pvars>>

\* import_data line 118 / import_all line 157: return results
TypeLoopReturn ==
    /\ ipc = "loop"
    /\ tpos > Len(LoopTypes)
    /\ ipc' = "done"
    /\ UNCHANGED <<pvars, bvars, mvars, entry, data_types, tpos, results, typeLog>>

NextTypeLoop ==
    \/ TypeLoopCall
    \/ SkipUnknownType
    \/ StartType
    \/ ImportAllCollect
    \/ TypeEmpty
    \/ TypeBatchImportCall
    \/ TypeImported
    \/ TypeRaised
    \/ TypeLoopReturn

-----------------------------------------------------------------------------
(* Input files *)

MaxFiles == 3      \* most files found for one type

\* a row holding a valid value in every required column
GoodRow(t, id) ==
    [f \in RequiredFields(t) |->
        CASE f = "id" -> id
          [] f = "type" -> "PERSON"
          [] f = "source" -> "A"
          [] f = "target" -> "B"
          [] f \in {"community", "level"} -> "1"
          [] f = "full_content_json" -> "{}"
          [] OTHER -> "v"]

\* the required column that the malformed inputs below lack or leave null
WeakField(t) ==
    CASE t = "text_unit" -> "text"
      [] t = "relationship" -> "target"
      [] t = "community_report" -> "community"
      [] OTHER -> "title"

GoodFile(t, ids) ==
    [readable |-> TRUE,
     table |-> [columns |-> RequiredFields(t),
                rows |-> [n \in 1..Len(ids) |-> GoodRow(t, ids[n])]]]

\* a file without one of the required columns
MissingColumnFile(t, id) ==
    [readable |-> TRUE,
     table |-> [columns |-> RequiredFields(t) \ {WeakField(t)},
                rows |-> << [f \in RequiredFields(t) \ {WeakField(t)} |->
                               GoodRow(t, id)[f]] >>]]

\* a file with every required column and a null in one of them
NullRowFile(t, id) ==
    [readable |-> TRUE,
     table |-> [columns |-> RequiredFields(t),
                rows |-> << [GoodRow(t, id) EXCEPT ![WeakField(t)] = None] >>]]

\* a file pd.read_parquet cannot read
UnreadableFile ==
    [readable |-> FALSE, table |-> [columns |-> {}, rows |-> <<>>]]

\* two ids of the syntax the type's id rule wants
IdsOf(t) == IF IdFormatRule(t) = "hash" THEN <<"h1", "h2">> ELSE <<"u1", "u2">>

FileCatalogue(t) ==
    { GoodFile(t, <<IdsOf(t)[1]>>),
      GoodFile(t, <<IdsOf(t)[2], IdsOf(t)[1]>>),
      MissingColumnFile(t, IdsOf(t)[1]),
      NullRowFile(t, IdsOf(t)[2]),
      UnreadableFile }

\* import_data_type called on one type, any list of files found for it
InitManager ==
    /\ data_type \in KnownTypes
    /\ \E fs \in SeqsUpTo(FileCatalogue(data_type), MaxFiles) :
          directory = [t \in KnownTypes |-> IF t = data_type THEN fs ELSE <<>>]
    /\ files = <<>>
    /\ fpos = 0
    /\ all_data = <<>>
    /\ fileLog = <<>>
    /\ mpc = "call"
    /\ TypeLoopIdle
    /\ PureIdle
    /\ conflict_strategy = "upsert"
    /\ batch_size = 1
    /\ data_list = <<>>
    /\ store = <<>>
    /\ initLen = 0
    /\ pc = "idle"
    /\ i = 0
    /\ k = 0
    /\ mutations = <<>>
    /\ imported = 0
    /\ txns = <<>>
    /\ batchLog = <<>>
    /\ lastCheck = NoCheck
    /\ runs = <<>>
    /\ startLen = 0
    /\ faults = 0

SpecManager == InitManager /\ [][NextManager]_vars

\* a data directory with one well-formed one-row file per type
CleanDirectory == [t \in KnownTypes |-> << GoodFile(t, <<IdsOf(t)[1]>>) >>]

\* a data directory with missing, malformed and unreadable files
MessyDirectory ==
    [t \in KnownTypes |->
        CASE t = "text_unit" -> <<>>
          [] t = "document" -> << NullRowFile(t, "h2"), GoodFile(t, <<"h1">>) >>
          [] t = "entity" ->
                << GoodFile(t, <<"u1">>), MissingColumnFile(t, "u2"),
                   GoodFile(t, <<"x1", "u1">>) >>
          [] t = "relationship" -> << GoodFile(t, <<"u1", "u2">>) >>
          [] t = "community" -> << UnreadableFile >>
          [] OTHER -> << NullRowFile(t, "u2") >>]

\* the type lists import_data is called with
RequestedLists ==
    { <<>>, <<"all">>, <<"entity", "text_unit">>, <<"bogus", "relationship">>,
      <<"document", "all">> }

InitImport ==
    /\ entry \in {"import_data", "import_all"}
    /\ data_types \in (IF entry = "import_data" THEN RequestedLists ELSE {<<>>})
    /\ directory \in {CleanDirectory, MessyDirectory}
    /\ conflict_strategy \in (IF entry = "import_data" THEN Strategies ELSE {"upsert"})
    /\ batch_size \in (IF entry = "import_data" THEN 0..MaxBatch ELSE {1})
    /\ tpos = 0
    /\ results = EmptyMap
    /\ typeLog = <<>>
    /\ ipc = "call"
    /\ PureIdle
    /\ files = <<>>
    /\ fpos = 0
    /\ all_data = <<>>
    /\ fileLog = <<>>
    /\ mpc = "idle"
    /\ data_type = None
    /\ data_list = <<>>
    /\ store = <<>>
    /\ initLen = 0
    /\ pc = "idle"
    /\ i = 0
    /\ k = 0
    /\ mutations = <<>>
    /\ imported = 0
    /\ txns = <<>>
    /\ batchLog = <<>>
    /\ lastCheck = NoCheck
    /\ runs = <<>>
    /\ startLen = 0
    /\ faults = 0

NextImport ==
    \/ NextTypeLoop
    \/ NextManager
    \/ BatchImportEntry
    \/ BeginBatch
    \/ BeginBatchFails
    \/ CheckItem
    \/ CheckItemQueryFails
    \/ FinishBatchCommitted
    \/ FinishBatchMutationFails
    \/ FinishBatchEmpty
    \/ BatchImportReturn

SpecImport == InitImport /\ [][NextImport]_vars

-----------------------------------------------------------------------------
(* The converters, the id validator and the formatter applied on their own *)

MaxCalls == 2      \* calls of one function on the same argument

\* a table of n well-formed rows, row j (if any) with a null required value
TableWithNull(t, n, j) ==
    [columns |-> RequiredFields(t),
     rows |-> [m \in 1..n |->
                 IF m = j
                 THEN [GoodRow(t, IdsOf(t)[1]) EXCEPT ![WeakField(t)] = None]
                 ELSE GoodRow(t, IdsOf(t)[1])]]

\* values of the members column of a community row: no column, null, the
\* empty list, a list of one member
MemberSamples == {"absent", None, "[]", "[e1]"}

\* row extended by (or overwritten at) column f with value v
WithColumn(row, f, v) ==
    [g \in DOMAIN row \cup {f} |-> IF g = f THEN v ELSE row[g]]

\* a one-row community table with the given members value
CommunityTable(m) ==
    LET row == GoodRow("community", "u1")
    IN IF m = "absent"
       THEN [columns |-> RequiredFields("community"), rows |-> <<row>>]
       ELSE [columns |-> RequiredFields("community") \cup {"members"},
             rows |-> << WithColumn(row, "members", m) >>]

\* a table of n well-formed rows, row j with the text v
TableWithText(t, n, j, v) ==
    [columns |-> RequiredFields(t),
     rows |-> [m \in 1..n |->
                 IF m = j
                 THEN [GoodRow(t, IdsOf(t)[1]) EXCEPT !["text"] = v]
                 ELSE GoodRow(t, IdsOf(t)[1])]]

\* tables with a text that is too long or too short, in the first and in
\* the last row
TextTables ==
    { [t |-> t, table |-> TableWithText(t, n, j, v)] :
         t \in {"text_unit", "document"}, n \in {1, SampleLimit + 1},
         j \in {1, SampleLimit + 1}, v \in {LongText, ""} }

\* the tables convert is applied to
ConvertArgs ==
    { [t |-> t, table |-> TableWithNull(t, n, j)] :
         t \in KnownTypes, n \in {1, SampleLimit + 1}, j \in {0, 1, SampleLimit + 1} }
    \cup { [t |-> t, table |-> MissingColumnFile(t, IdsOf(t)[1]).table] : t \in KnownTypes }
    \cup { [t |-> "community", table |-> CommunityTable(m)] : m \in MemberSamples }
    \cup TextTables

\* values of a numeric column: numeric strings, numbers, a string that is
\* no number, null
NumericSamples == {"7", "7.5", "#7", "#7.5", "abc", None}

\* the rows process_fields is applied to: a well-formed row with one numeric
\* column set to a sample
ProcessFieldsArgs ==
    { [t |-> t, field |-> f, row |-> WithColumn(GoodRow(t, IdsOf(t)[1]), f, v)] :
         t \in KnownTypes,
         f \in {"n_tokens", "frequency", "degree", "x", "y", "weight",
                "combined_degree", "community", "level", "size", "parent", "rating"},
         v \in NumericSamples }

IdSamples == {"u1", "h1", "h40", "h31", "h1\n", "x1"}

ValidateIdFormatArgs ==
    { [t |-> t, id |-> id] : t \in KnownTypes \cup {"bogus"}, id \in IdSamples }

\* the records convert_to_dgraph_format is applied to
FormatArgs ==
    { [t |-> t, isNone |-> FALSE, item |-> r] :
         t \in {"entity", "relationship"},
         r \in EntityRecords \cup RelationshipRecords
               \cup { [id |-> "u1", title |-> " ", description |-> ""] } }
    \cup { [t |-> t, isNone |-> FALSE, item |-> process_fields(GoodRow(t, IdsOf(t)[1]), t)] :
              t \in KnownTypes }
    \cup { [t |-> t, isNone |-> TRUE, item |-> <<>>] : t \in KnownTypes }

\* the values convert_value is applied to: a timestamp on its own and inside
\* a tuple, a set, a list and a dict, one and two levels deep
ValueSamples ==
    LET stamp == Value("datetime", "t1", <<>>)
        word == Value("str", "abc", <<>>)
    IN { stamp, word, NoneValue,
         Value("tuple", "", <<stamp>>),
         Value("set", "", <<stamp>>),
         Value("list", "", <<stamp, word>>),
         Value("list", "", << Value("list", "", <<stamp>>) >>),
         Value("list", "", << Value("tuple", "", <<stamp>>) >>),
         Value("dict", "", << Value("entry", "a", <<stamp>>),
                              Value("entry", "b", <<NoneValue>>) >>),
         Value("dict", "", << Value("entry", "a", << Value("set", "", <<stamp>>) >>) >>) }

ConvertValueArgs == { [v |-> v] : v \in ValueSamples }

ArgsOf(f) ==
    CASE f = "convert" -> ConvertArgs
      [] f = "process_fields" -> { a \in ProcessFieldsArgs : NumericKind(a.t, a.field) # None }
      [] f = "validate_id_format" -> ValidateIdFormatArgs
      [] f = "convert_value" -> ConvertValueArgs
      [] OTHER -> FormatArgs

\* a formatter that removes the type field from the record it is given
ItemAfterFormat_PopsType(item) == [f \in DOMAIN item \ {"type"} |-> item[f]]

\* convert_to_dgraph_format reads its record and never assigns into it
ItemAfterFormat(item) == item

\* lines 203-204: None is returned for None
FormatCall(a) ==
    IF a.isNone THEN None ELSE convert_to_dgraph_format(a.item, a.t)

CanCall(f) == call_fn = f /\ Len(call_out) < MaxCalls

Idle == UNCHANGED <<bvars, mvars, ivars, call_fn, call_arg0>>

ApplyConvert ==
    /\ CanCall("convert")
    /\ call_out' = Append(call_out, Convert(call_arg.table, call_arg.t))
    /\ UNCHANGED call_arg
    /\ Idle

ApplyProcessFields ==
    /\ CanCall("process_fields")
    /\ call_out' = Append(call_out, process_fields(call_arg.row, call_arg.t))
    /\ UNCHANGED call_arg
    /\ Idle

ApplyValidateIdFormat ==
    /\ CanCall("validate_id_format")
    /\ call_out' = Append(call_out, validate_id_format(call_arg.id, call_arg.t))
    /\ UNCHANGED call_arg
    /\ Idle

ApplyFormat ==
    /\ CanCall("convert_to_dgraph_format")
    /\ call_out' = Append(call_out, FormatCall(call_arg))
    /\ call_arg' = IF call_arg.isNone THEN call_arg
                   ELSE [call_arg EXCEPT !.item = ItemAfterFormat(@)]
    /\ Idle

ApplyConvertValue ==
    /\ CanCall("convert_value")
    /\ call_out' = Append(call_out, convert_value_nested(call_arg.v))
    /\ UNCHANGED call_arg
    /\ Idle

InitFunctions ==
    /\ call_fn \in {"convert", "process_fields", "validate_id_format",
                    "convert_to_dgraph_format", "convert_value"}
    /\ call_arg \in ArgsOf(call_fn)
    /\ call_arg0 = call_arg
    /\ call_out = <<>>
    /\ ManagerIdle
    /\ entry = "import_from_dataframe"
    /\ data_types = <<>>
    /\ tpos = 0
    /\ results = EmptyMap
    /\ typeLog = <<>>
    /\ ipc = "idle"
    /\ data_type = None
    /\ conflict_strategy = "upsert"
    /\ batch_size = 1
    /\ data_list = <<>>
    /\ store = <<>>
    /\ initLen = 0
    /\ pc = "idle"
    /\ i = 0
    /\ k = 0
    /\ mutations = <<>>
    /\ imported = 0
    /\ txns = <<>>
    /\ batchLog = <<>>
    /\ lastCheck = NoCheck
    /\ runs = <<>>
    /\ startLen = 0
    /\ faults = 0

NextFunctions ==
    \/ ApplyConvert
    \/ ApplyProcessFields
    \/ ApplyValidateIdFormat
    \/ ApplyFormat
    \/ ApplyConvertValue

SpecFunctions == InitFunctions /\ [][NextFunctions]_vars

\* _batch_import under a scheduler that lets the importer run: a step that
\* can be taken is taken
SpecFair == Spec /\ WF_vars(Next)

-----------------------------------------------------------------------------
(* Properties of _batch_import *)

CeilDiv(n, d) == (n + d - 1) \div d

\* per batch of a log, the size of its mutation set if the batch was
\* committed and 0 otherwise
CommittedSizes(log) ==
    [n \in 1..Len(log) |->
        IF log[n].outcome = "committed" THEN Len(log[n].muts) ELSE 0]

LastRun == runs[Len(runs)]

\* C1: a batch whose mutate call raises adds 0 to the count and records
\* exactly one error; the other batches are still processed (the call ends
\* with one log entry per batch of the list); the running and the returned
\* count are the sum of the mutation-set sizes of the committed batches.  With
\* three batches of which only the second fails in mutate, the count is the
\* size of batches one and three: 1000 + 500 = 1500 for 2,500 records in
\* batches of 1000.
C1_MutateFailureIsolated ==
    /\ \A n \in 1..Len(batchLog) :
          batchLog[n].outcome = "mutate_raise"
             => batchLog[n].added = 0 /\ batchLog[n].errors = 1
    /\ imported = SumSeq(CommittedSizes(batchLog))
    /\ (pc = "done" /\ data_list # <<>>)
          => /\ LastRun.returned = SumSeq(CommittedSizes(LastRun.log))
             /\ Len(LastRun.log) = CeilDiv(total, batch_size)
             /\ \A n \in 1..Len(LastRun.log) :
                   LastRun.log[n].size = BatchLen(total, (n - 1) * batch_size, batch_size)
    /\ BatchLen(2500, 0, 1000) + BatchLen(2500, 2000, 1000) = 1500
    /\ CeilDiv(2500, 1000) = 3

\* three batches, every record surviving, only the second batch failing in
\* mutate: the call returned the size of the first and the third batch
C1_Witness ==
    /\ pc = "done"
    /\ Len(runs) = 1
    /\ Len(LastRun.log) = 3
    /\ LastRun.log[1].outcome = "committed"
    /\ LastRun.log[2].outcome = "mutate_raise"
    /\ LastRun.log[3].outcome = "committed"
    /\ \A n \in 1..3 : Len(LastRun.log[n].muts) = LastRun.log[n].size
    /\ LastRun.returned = LastRun.log[1].size + LastRun.log[3].size
    /\ LastRun.returned = 2

\* every batch of the log went through: committed, or nothing to submit
AllBatchesSucceeded(log) ==
    \A n \in 1..Len(log) : log[n].outcome \in {"committed", "empty"}

CountId(st, id) ==
    Cardinality({n \in 1..Len(st) : Has(st[n], "id") /\ st[n]["id"] = id})

StoredIds(st) == {st[n]["id"] : n \in {m \in 1..Len(st) : Has(st[m], "id")}}

\* C2: with policy upsert, once the same list (of records that all have an
\* id) was imported twice and every batch of both imports succeeded, the store
\* is what it was after the first import: no id stored by the first import
\* has one more node.
C2_UpsertIdempotent ==
    (/\ conflict_strategy = "upsert"
     /\ Len(runs) = 2
     /\ \A n \in 1..Len(data_list) : HasId(data_list[n])
     /\ AllBatchesSucceeded(runs[1].log)
     /\ AllBatchesSucceeded(runs[2].log))
       => /\ runs[2].after = runs[1].after
          /\ \A id \in StoredIds(runs[1].after) :
                CountId(runs[2].after, id) = CountId(runs[1].after, id)

\* under skip no batch submits a mutation for an id the store held when the
\* batch was processed, and a record found by id is not put in the set
SkipDropsExistingIds ==
    conflict_strategy = "skip"
       => /\ \A n \in 1..Len(batchLog) :
                \A m \in 1..Len(batchLog[n].muts) :
                    Has(batchLog[n].muts[m], "id")
                       => ~IdExists(SubSeq(store, 1, batchLog[n].at),
                                    batchLog[n].muts[m]["id"])
          /\ (lastCheck.run > 0 /\ lastCheck.idInStore) => ~lastCheck.created

\* C3 as stated: under skip a record whose id is in the store is neither
\* submitted nor counted, and importing again a list whose first import fully
\* succeeded returns 0 and leaves the store as it was.
C3_SkipExclusive_Stated ==
    /\ SkipDropsExistingIds
    /\ (/\ conflict_strategy = "skip"
        /\ Len(runs) = 2
        /\ AllBatchesSucceeded(runs[1].log))
          => runs[2].returned = 0 /\ runs[2].after = runs[2].before

\* C3 amended: the same, the second import being a no-op when every record of
\* the list has an id.
C3_SkipExclusive ==
    /\ SkipDropsExistingIds
    /\ (/\ conflict_strategy = "skip"
        /\ Len(runs) = 2
        /\ AllBatchesSucceeded(runs[1].log)
        /\ \A n \in 1..Len(data_list) : HasId(data_list[n]))
          => runs[2].returned = 0 /\ runs[2].after = runs[2].before

\* a second import under skip of a list that the first import committed
C3_Witness ==
    /\ conflict_strategy = "skip"
    /\ Len(runs) = 2
    /\ AllBatchesSucceeded(runs[1].log)
    /\ runs[1].returned = 2
    /\ \A n \in 1..Len(data_list) : HasId(data_list[n])
    /\ lastCheck.run = 2 /\ lastCheck.idInStore /\ ~lastCheck.created
    /\ runs[2].returned = 0

\* the records of a list that pass the id-format check, formatted, in order
RECURSIVE FormattedValid(_, _)
FormattedValid(lst, t) ==
    IF lst = <<>> THEN <<>>
    ELSE (IF PassesIdFormat(Head(lst), t)
          THEN <<convert_to_dgraph_format(Head(lst), t)>> ELSE <<>>)
         \o FormattedValid(Tail(lst), t)

\* C4: with policy insert an import whose batches all succeed stores every
\* record that passes the id-format check, whatever the store holds, and
\* counts it: after two imports a format-valid id of the list has two nodes
\* more than before.
C4_InsertNoDedup ==
    (conflict_strategy = "insert" /\ pc = "done")
       => \A r \in 1..Len(runs) :
             AllBatchesSucceeded(runs[r].log)
                => /\ runs[r].after = runs[r].before \o FormattedValid(data_list, data_type)
                   /\ runs[r].returned = Len(FormattedValid(data_list, data_type))
                   /\ \A n \in 1..Len(data_list) :
                         (HasId(data_list[n]) /\ PassesIdFormat(data_list[n], data_type))
                            => CountId(runs[r].after, data_list[n]["id"])
                                  > CountId(runs[r].before, data_list[n]["id"])

\* the same one-record list imported twice under insert: two nodes, both counted
C4_Witness ==
    /\ conflict_strategy = "insert"
    /\ pc = "done"
    /\ Len(runs) = 2
    /\ Len(data_list) = 1
    /\ HasId(data_list[1])
    /\ runs[1].before = <<>>
    /\ runs[1].returned = 1 /\ runs[2].returned = 1
    /\ CountId(store, data_list[1]["id"]) = 2

\* C5: under skip, a relationship record whose id is not in the store and
\* whose (source, target) is carried by a node the importer committed earlier
\* is not put in the mutation set (and so not counted).
C5_SkipDropsKnownPair ==
    (/\ conflict_strategy = "skip"
     /\ data_type = "relationship"
     /\ lastCheck.run > 0
     /\ lastCheck.fault = "none"
     /\ HasId(lastCheck.item)
     /\ ~lastCheck.idInStore
     /\ lastCheck.pairByImporter)
       => ~lastCheck.created

\* C6: a transaction is open only while its own batch is being processed:
\* every earlier transaction is committed or discarded when the next one is
\* opened, none is open between batches or after the return, and every batch
\* that opened one left it committed (mutate and commit succeeded, or nothing
\* to submit) or discarded (mutate, commit or a query raised).
C6_TransactionsClosed ==
    /\ \A n \in 1..Len(txns) :
          txns[n].status = "open" => (n = Len(txns) /\ pc \in {"items", "exec"})
    /\ \A n \in 1..Len(batchLog) :
          batchLog[n].txn > 0
             => txns[batchLog[n].txn].status =
                   (IF batchLog[n].outcome \in {"committed", "empty"}
                    THEN "committed" ELSE "discarded")

\* a finished call with a batch aborted by a raising query, a batch with
\* nothing to submit and a committed batch, each with its own transaction
C6_Witness ==
    /\ pc = "done"
    /\ Len(runs) = 1
    /\ Len(txns) = 3
    /\ {batchLog[n].outcome : n \in 1..Len(batchLog)}
          = {"query_failed", "empty", "committed"}
    /\ \A n \in 1..Len(txns) : txns[n].status # "open"

\* C10: from an empty store and with policy skip, no two committed nodes
\* share an id and no two committed relationship nodes share (source, target).
C10_SkipKeepsUnique ==
    (conflict_strategy = "skip" /\ initLen = 0)
       => \A a, b \in 1..Len(store) :
             a # b
                => /\ ~(/\ Has(store[a], "id") /\ Has(store[b], "id")
                        /\ store[a]["id"] = store[b]["id"])
                   /\ data_type = "relationship"
                         => ~(/\ Has(store[a], "source") /\ Has(store[b], "source")
                              /\ Has(store[a], "target") /\ Has(store[b], "target")
                              /\ store[a]["source"] = store[b]["source"]
                              /\ store[a]["target"] = store[b]["target"])

\* the calls named op in a call log
CallsNamed(calls, ops) == {p \in 1..Len(calls) : calls[p][1] \in ops}

QueryOps == {"query_id", "query_composite"}

RECURSIVE Survivors(_, _)
\* the mutations of the records of items that pass every check against st
Survivors(items, st) ==
    IF items = <<>> THEN <<>>
    ELSE (IF /\ PassesIdFormat(Head(items), data_type)
             /\ should_create(Head(items), st, conflict_strategy, data_type)
          THEN << convert_to_dgraph_format(Head(items), data_type) >>
          ELSE <<>>) \o Survivors(Tail(items), st)

RECURSIVE ExpectedQueries(_)
\* the queries the item loop makes for the records of items, in order
ExpectedQueries(items) ==
    IF items = <<>> THEN <<>>
    ELSE (IF PassesIdFormat(Head(items), data_type)
          THEN ItemCalls(Head(items), conflict_strategy, data_type)
          ELSE <<>>) \o ExpectedQueries(Tail(items))

\* the batches of a log that got a transaction
WithTxn(log) == {n \in 1..Len(log) : log[n].txn > 0}

RECURSIVE TxnsOfRuns(_)
TxnsOfRuns(rs) ==
    IF rs = <<>> THEN 0
    ELSE Cardinality(WithTxn(Head(rs).log)) + TxnsOfRuns(Tail(rs))

\* the call in progress, if any, has entries of its own in batchLog
CallActive == pc \in {"loop", "items", "exec", "return", "raise"}

\* C16: every batch gets exactly one transaction of its own (none only when
\* opening it raised); the existence queries of the batch's records and the
\* batch's mutation are calls on that transaction; at most one set-mutate
\* call is made per batch, after all the queries, carrying one mutation per
\* surviving record in input order; no mutate call is made when no record
\* survives.
C16_OneTransactionPerBatch ==
    /\ Len(txns) = TxnsOfRuns(runs)
                   + (IF CallActive THEN Cardinality(WithTxn(batchLog)) ELSE 0)
                   + (IF pc \in {"items", "exec"} THEN 1 ELSE 0)
    /\ \A n \in 1..Len(batchLog) :
          LET b == batchLog[n]
              items == BatchOf(data_list, (n - 1) * batch_size, batch_size)
          IN /\ b.txn = 0 <=> b.outcome = "txn_failed"
             /\ \A m \in 1..(n - 1) : b.txn > 0 => batchLog[m].txn < b.txn
             /\ b.txn > 0
                   => LET c == txns[b.txn].calls
                          mut == CallsNamed(c, {"mutate"})
                          qry == CallsNamed(c, QueryOps)
                      IN /\ Cardinality(mut) <= 1
                         /\ mut # {} <=> b.muts # <<>>
                         /\ \A p \in mut, q \in qry : q < p
                         /\ b.outcome # "query_failed"
                               => /\ b.muts = Survivors(items, SubSeq(store, 1, b.at))
                                  /\ [q \in 1..Cardinality(qry) |-> c[q]]
                                        = ExpectedQueries(items)

\* a call with a batch of two surviving records, each checked by a query on
\* the batch's transaction before the one mutate call, and a later batch
\* with no survivor and no mutate call
C16_Witness ==
    /\ pc = "done"
    /\ Len(batchLog) = 2
    /\ Len(batchLog[1].muts) = 2
    /\ Cardinality(CallsNamed(txns[batchLog[1].txn].calls, QueryOps)) = 2
    /\ Cardinality(CallsNamed(txns[batchLog[1].txn].calls, {"mutate"})) = 1
    /\ batchLog[2].outcome = "empty"
    /\ CallsNamed(txns[batchLog[2].txn].calls, {"mutate"}) = {}
    /\ batchLog[2].txn # batchLog[1].txn

\* C17: a storage-layer validation error raised for a record never aborts the
\* batch: the item loop goes on to the next record, and a batch no transport
\* fault hit submits and counts exactly its surviving records.  A record
\* whose id fails the format check is left out of the mutation set under
\* every policy and no query is made for it.
C17_ValidationErrorsPerRecord ==
    /\ (/\ pc \in {"items", "exec"}
        /\ lastCheck.run = Len(runs) + 1
        /\ k > 1
        /\ lastCheck.pos = i + k - 1
        /\ lastCheck.fault = "none")
          => /\ (HasId(lastCheck.item)
                 /\ ~validate_id_format(lastCheck.item["id"], data_type))
                   => /\ ~lastCheck.created
                      /\ lastCheck.queries = <<>>
                      /\ lastCheck.raised = {"ID_FORMAT"}
             /\ lastCheck.raised # {}
                   => pc = (IF lastCheck.pos = i + Len(batch) THEN "exec" ELSE "items")
    /\ (faults = 0 /\ pc \in {"loop", "items", "exec", "done"})
          => \A n \in 1..Len(batchLog) :
                LET b == batchLog[n]
                    items == BatchOf(data_list, (n - 1) * batch_size, batch_size)
                IN /\ b.outcome \in {"committed", "empty"}
                   /\ b.added = Len(Survivors(items, SubSeq(store, 1, b.at)))

\* a committed batch of two records whose first record raised ID_FORMAT and
\* whose second record was submitted and counted
C17_Witness ==
    /\ pc = "done"
    /\ batch_size = 2
    /\ Len(batchLog) >= 1
    /\ batchLog[1].size = 2
    /\ HasId(data_list[1])
    /\ ~validate_id_format(data_list[1]["id"], data_type)
    /\ batchLog[1].outcome = "committed"
    /\ batchLog[1].added = 1
    /\ LastRun.returned >= 1

\* the length of the store when the batch after batch n began, or now
StoreAfterBatch(n) ==
    IF n < Len(batchLog) THEN batchLog[n + 1].at ELSE Len(store)

\* C18: when an existence query or the commit raises while a batch is
\* processed, the batch's transaction is discarded, the store is as it was
\* before the batch, the batch adds 0 to the count, and the batches after it
\* are processed.
C18_TransportFailureIsolated ==
    /\ \A n \in 1..Len(batchLog) :
          batchLog[n].outcome \in {"query_failed", "commit_raise", "empty_commit_failed"}
             => /\ txns[batchLog[n].txn].status = "discarded"
                /\ batchLog[n].added = 0
                /\ StoreAfterBatch(n) = batchLog[n].at
    /\ pc = "done"
          => /\ Len(LastRun.log) = CeilDiv(total, batch_size)
             /\ LastRun.returned =
                   SumSeq([n \in 1..Len(LastRun.log) |->
                              IF LastRun.log[n].outcome = "committed"
                              THEN Len(LastRun.log[n].muts) ELSE 0])

\* a finished call whose first batch lost its commit and whose second batch
\* was committed and counted
C18_Witness ==
    /\ pc = "done"
    /\ Len(batchLog) = 2
    /\ batchLog[1].outcome = "commit_raise"
    /\ batchLog[1].muts # <<>>
    /\ batchLog[2].outcome = "committed"
    /\ LastRun.returned = Len(batchLog[2].muts)
    /\ Len(store) = batchLog[1].at + Len(batchLog[2].muts)

\* the records of items that have no id or an id of the right format
PassingCount(items) ==
    Cardinality({n \in 1..Len(items) :
        HasId(items[n]) => validate_id_format(items[n]["id"], data_type)})

\* C19: under insert no id-existence query is ever made, and every record
\* whose id passes the format check is put in the mutation set of its batch
\* whatever the store holds, also when its id or its composite key is there.
C19_InsertNeverChecksId ==
    conflict_strategy = "insert"
       => /\ \A n \in 1..Len(txns) : CallsNamed(txns[n].calls, {"query_id"}) = {}
          /\ (/\ pc \in {"items", "exec"}
              /\ lastCheck.run = Len(runs) + 1
              /\ k > 1
              /\ lastCheck.pos = i + k - 1
              /\ lastCheck.fault = "none"
              /\ (HasId(lastCheck.item)
                    => validate_id_format(lastCheck.item["id"], data_type)))
                => /\ lastCheck.created
                   /\ mutations # <<>>
                   /\ mutations[Len(mutations)]
                         = convert_to_dgraph_format(lastCheck.item, data_type)
          /\ \A n \in 1..Len(batchLog) :
                batchLog[n].outcome \in {"committed", "mutate_raise", "commit_raise",
                                         "empty"}
                   => Len(batchLog[n].muts) =
                         PassingCount(BatchOf(data_list, (n - 1) * batch_size, batch_size))

\* under insert a relationship whose id and whose (source, target) pair are
\* both in the store already was submitted and committed
C19_Witness ==
    /\ conflict_strategy = "insert"
    /\ pc = "done"
    /\ lastCheck.run = 1
    /\ lastCheck.idInStore
    /\ lastCheck.raised = {"COMPOSITE_UNIQUE"}
    /\ lastCheck.created
    /\ Len(store) > initLen
    /\ store[Len(store)] = convert_to_dgraph_format(lastCheck.item, data_type)

\* lastCheck tells what the item loop did with the record before position k
\* of the batch in progress, every query having answered
CheckedNow ==
    /\ pc \in {"items", "exec"}
    /\ lastCheck.run = Len(runs) + 1
    /\ k > 1
    /\ lastCheck.pos = i + k - 1
    /\ lastCheck.fault = "none"

\* C20 as stated: under skip, for a record on which both checks are made, the
\* composite check decides: the record is submitted exactly when its
\* composite key is not found, whatever the id check found.
C20_LastCheckWins_Stated ==
    (/\ conflict_strategy = "skip"
     /\ CheckedNow
     /\ IdQueryIssued(lastCheck.item, conflict_strategy, data_type)
     /\ CompositeQueryIssued(lastCheck.item, data_type))
       => (lastCheck.created <=> "COMPOSITE_UNIQUE" \notin lastCheck.raised)

\* C20: under skip a record on which both checks are made is submitted
\* exactly when neither finds it: found by the id check it is dropped also
\* when its composite key is not found, and found by the composite check it
\* is dropped also when its id is new.
C20_EitherCheckDrops ==
    (/\ conflict_strategy = "skip"
     /\ CheckedNow
     /\ IdQueryIssued(lastCheck.item, conflict_strategy, data_type)
     /\ CompositeQueryIssued(lastCheck.item, data_type))
       => (lastCheck.created <=> lastCheck.raised = {})

\* under skip, a relationship whose id is in the store and whose (source,
\* target) pair the composite query does not find was dropped
C20_Witness ==
    /\ conflict_strategy = "skip"
    /\ CheckedNow
    /\ CompositeQueryIssued(lastCheck.item, data_type)
    /\ lastCheck.raised = {"UNIQUE"}
    /\ ~lastCheck.created

\* C21: validate_composite_unique makes its query only for a type declaring
\* composite-unique fields and a record holding a value that is not null for
\* every one of them, and the query filters on all of those fields; for a
\* type without composite rule no query is made and nothing is raised.
C21_CompositeQueryRule ==
    CheckedNow
       => LET item == lastCheck.item
              fields == CompositeFields(data_type)
              made == CallsNamed(lastCheck.queries, {"query_composite"}) # {}
          IN /\ made => /\ fields # {}
                        /\ \A f \in fields : Has(item, f) /\ item[f] # None
                        /\ CompositeConditions(item, data_type) = fields
             /\ fields = {} => ~made /\ "COMPOSITE_UNIQUE" \notin lastCheck.raised

\* the checks made on the record just handled came in the order id
\* existence, composite existence, and none was made on a record that an
\* earlier check had dropped
NoCheckAfterDrop ==
    CheckedNow
       => /\ "ID_FORMAT" \in lastCheck.raised => lastCheck.queries = <<>>
          /\ ("UNIQUE" \in lastCheck.raised /\ conflict_strategy = "skip")
                => CallsNamed(lastCheck.queries, {"query_composite"}) = {}
          /\ \A p, q \in 1..Len(lastCheck.queries) :
                (lastCheck.queries[p][1] = "query_composite"
                 /\ lastCheck.queries[q][1] = "query_id") => q < p

\* when the call has returned, every record of every batch was either
\* dropped by a check or put in the batch's mutation set, and the mutation
\* set was either committed whole or rolled back whole
FatesDecided ==
    (pc = "done" /\ data_list # <<>>)
       => \A n \in 1..Len(LastRun.log) :
             LET b == LastRun.log[n]
                 items == BatchOf(data_list, (n - 1) * batch_size, batch_size)
             IN /\ b.outcome \in {"committed", "mutate_raise", "commit_raise",
                                  "empty", "empty_commit_failed"}
                /\ b.muts = Survivors(items, SubSeq(store, 1, b.at))
                /\ b.outcome = "committed"
                      => SubSeq(store, b.at + 1, b.at + Len(b.muts)) = b.muts

\* a call of _batch_import returns
BatchImportTerminates == (pc = "call") ~> (pc = "done")

\* C24: _batch_import terminates; every record ends dropped by a check,
\* committed with its batch or failed with its batch, exactly one of the
\* three; no check is made on a record after it was dropped, and the checks
\* come in the order id format, id existence, composite existence, format.
C24_RecordLifecycle ==
    /\ []NoCheckAfterDrop
    /\ []FatesDecided
    /\ BatchImportTerminates

\* a call that ends a transaction: a commit that went through, or a discard
Finishes(call) == call = <<"commit", "ok">> \/ call[1] = "discard"

\* C25: on every transaction commit is called at most once, and no commit,
\* mutate or query is called after a commit or a discard of it.
C25_NoUseAfterFinish ==
    \A n \in 1..Len(txns) :
       LET calls == txns[n].calls
       IN /\ Cardinality(CallsNamed(calls, {"commit"})) <= 1
          /\ \A p, q \in 1..Len(calls) :
                (p < q /\ Finishes(calls[p]))
                   => calls[q][1] \notin {"commit", "mutate"} \cup QueryOps

\* the running count is the number of nodes the call has added to the store
\* and at most the number of records of the batches it is done with
CountIsCommitted ==
    /\ (pc \in {"loop", "items", "exec", "return"} \/ (pc = "done" /\ data_list # <<>>))
          => /\ imported = Len(store) - startLen
             /\ imported <= Min(i, total)
    /\ (pc = "done" /\ data_list # <<>>)
          => LastRun.returned = imported /\ LastRun.returned <= total
    /\ (pc = "done" /\ data_list = <<>>) => LastRun.returned = 0

\* within a call the running count does not go down
CountGrows == pc # "call" => imported' >= imported

\* C26: at every point of _batch_import the running count is the number of
\* records the call has committed to the store in the batches processed so
\* far; it never decreases, never exceeds the number of records processed so
\* far, and the value returned is at most the length of the input.
C26_RunningCount == []CountIsCommitted /\ [][CountGrows]_vars

\* a call returned a count that is positive and smaller than the list after
\* a batch whose commit raised was rolled back with its mutation set
C26_Witness ==
    /\ pc = "done"
    /\ Len(runs) = 1
    /\ \E n \in 1..Len(LastRun.log) :
          LastRun.log[n].outcome = "commit_raise" /\ LastRun.log[n].muts # <<>>
    /\ \E n \in 1..Len(LastRun.log) : LastRun.log[n].outcome = "committed"
    /\ LastRun.returned > 0
    /\ LastRun.returned < total
    /\ LastRun.returned = Len(store) - initLen

\* C27: every mutation the batch importer builds or has submitted for a type
\* carries the type tag that is the type's registry type name, also when the
\* row has a type value of its own.
C27_TypeTagIsRegistryName ==
    pc \in {"loop", "items", "exec", "done"}
       => /\ \A n \in 1..Len(mutations) :
                /\ Has(mutations[n], "dgraph.type")
                /\ mutations[n]["dgraph.type"] = TypeName(data_type)
          /\ \A b \in 1..Len(batchLog) : \A n \in 1..Len(batchLog[b].muts) :
                /\ Has(batchLog[b].muts[n], "dgraph.type")
                /\ batchLog[b].muts[n]["dgraph.type"] = TypeName(data_type)

\* the batches are the consecutive slices of the list, one after the other
BatchesPartition ==
    /\ pc \in {"loop", "items", "exec"} => i = Len(batchLog) * batch_size
    /\ pc \in {"items", "exec"}
          => /\ i < total
             /\ batch = SubSeq(data_list, i + 1, Min(i + batch_size, total))
             /\ 1 <= Len(batch) /\ Len(batch) <= batch_size
             /\ i + batch_size <= total => Len(batch) = batch_size
    /\ pc \in {"loop", "items", "exec", "done"}
          => \A n \in 1..Len(batchLog) :
                /\ batchLog[n].size >= 1
                /\ batchLog[n].size = IF n * batch_size <= total THEN batch_size
                                      ELSE total - (n - 1) * batch_size
    /\ (pc = "done" /\ data_list # <<>>)
          => /\ Len(LastRun.log) = CeilDiv(total, batch_size)
             /\ SumSeq([n \in 1..Len(LastRun.log) |-> LastRun.log[n].size]) = total
    /\ data_list = <<>>
          => /\ txns = <<>>
             /\ pc = "done" => LastRun.returned = 0

\* the record the item loop handles is the record of the list at its
\* position, and within a call the positions go up
InInputOrder ==
    (lastCheck' # lastCheck /\ lastCheck'.run # 0)
       => /\ lastCheck'.item = data_list[lastCheck'.pos]
          /\ lastCheck.run = lastCheck'.run => lastCheck'.pos > lastCheck.pos

\* C29: a list of n records is processed in ceil(n/b) batches, one after the
\* other and in input order; the batches are consecutive slices that
\* partition the list, every batch but the last of b records, the last of 1
\* to b; an empty list opens no transaction and returns 0.
C29_BatchPartition == []BatchesPartition /\ [][InInputOrder]_vars

\* three records in batches of two: a batch of two and a batch of one, both
\* committed with every record
C29_Witness ==
    /\ pc = "done"
    /\ total = 3 /\ batch_size = 2
    /\ Len(LastRun.log) = 2
    /\ LastRun.log[1].size = 2 /\ LastRun.log[2].size = 1
    /\ Len(LastRun.log[1].muts) = 2 /\ Len(LastRun.log[2].muts) = 1
    /\ \A n \in 1..2 : LastRun.log[n].outcome = "committed"

\* C30: a record without id, the key absent or its value null, gets neither
\* the id-format check nor the id-existence query under any policy, and is
\* put, formatted, in the mutation set of its batch unless the policy is skip
\* and the composite query finds its key.
C30_NoIdRecordFlow ==
    (CheckedNow /\ (~Has(lastCheck.item, "id") \/ lastCheck.item["id"] = None))
       => /\ "ID_FORMAT" \notin lastCheck.raised
          /\ CallsNamed(lastCheck.queries, {"query_id"}) = {}
          /\ lastCheck.created
                <=> ~(conflict_strategy = "skip"
                      /\ CompositeQueryIssued(lastCheck.item, data_type)
                      /\ CompositeExists(store, lastCheck.item, data_type))
          /\ lastCheck.created
                => /\ mutations # <<>>
                   /\ mutations[Len(mutations)] =
                         convert_to_dgraph_format(lastCheck.item, data_type)

\* under skip a relationship handed over without id key was dropped because
\* the composite query found its pair
C30_Witness ==
    /\ CheckedNow
    /\ conflict_strategy = "skip"
    /\ ~Has(lastCheck.item, "id")
    /\ lastCheck.queries = <<<<"query_composite", "ok">>>>
    /\ lastCheck.raised = {"COMPOSITE_UNIQUE"}
    /\ ~lastCheck.created

-----------------------------------------------------------------------------
(* Properties of import_data_type, import_all and import_data *)

RECURSIVE ConcatConverted(_, _)
\* the converted records, in file order, of the files that load and convert
ConcatConverted(fs, t) ==
    IF fs = <<>> THEN <<>>
    ELSE LET r == ProcessFile(fs[1], t)
         IN (IF r.ok THEN r.records ELSE <<>>) \o ConcatConverted(Tail(fs), t)

\* a readable file without one of the required columns of t
LacksColumn(file, t) ==
    file.readable /\ ~(RequiredFields(t) \subseteq file.table.columns)

\* C7: import_data_type returns the concatenation, in file order, of the
\* converted records of exactly the files that load and convert; every file
\* of the list is gone through, a file that fails adds nothing, and a file
\* without a required column is reported as MISSING_COLUMNS.
C7_FileFailureIsolated ==
    /\ mpc = "files" => Len(fileLog) = fpos - 1
    /\ mpc = "done"
          => /\ all_data = ConcatConverted(directory[data_type], data_type)
             /\ Len(fileLog) = Len(directory[data_type])
             /\ \A n \in 1..Len(fileLog) :
                   LET file == directory[data_type][n]
                   IN /\ LacksColumn(file, data_type)
                            => /\ fileLog[n].code = "MISSING_COLUMNS"
                               /\ fileLog[n].records = <<>>
                      /\ ~file.readable => fileLog[n].records = <<>>

\* three files of which the second lacks a required column: the call returns
\* the one record of the first file followed by the two of the third
C7_Witness ==
    /\ mpc = "done"
    /\ Len(directory[data_type]) = 3
    /\ ~LacksColumn(directory[data_type][1], data_type)
    /\ LacksColumn(directory[data_type][2], data_type)
    /\ Len(fileLog) = 3
    /\ fileLog[2].code = "MISSING_COLUMNS"
    /\ Len(fileLog[1].records) = 1
    /\ Len(fileLog[3].records) = 2
    /\ all_data = fileLog[1].records \o fileLog[3].records

\* the dependency order of the six types
DependencyOrder ==
    <<"text_unit", "document", "entity", "relationship", "community",
      "community_report">>

\* import_all, or import_data without a list or with a list naming 'all'
AllTypesRequested ==
    \/ entry = "import_all"
    \/ /\ entry = "import_data"
       /\ \/ data_types = <<>>
          \/ \E n \in 1..Len(data_types) : data_types[n] = "all"

\* C8: when all types are requested, the types started so far are the first
\* ones of text_unit, document, entity, relationship, community,
\* community_report in that order, each once; a type is started only after
\* every earlier one has ended, and on return all six have ended, whether or
\* not some of them failed.
C8_DependencyOrder ==
    (AllTypesRequested /\ ipc # "call")
       => /\ Len(typeLog) <= Len(DependencyOrder)
          /\ \A n \in 1..Len(typeLog) :
                /\ typeLog[n].type = DependencyOrder[n]
                /\ n < Len(typeLog) => typeLog[n].outcome # "running"
          /\ ipc = "done"
                => /\ Len(typeLog) = Len(DependencyOrder)
                   /\ \A n \in 1..Len(typeLog) : typeLog[n].outcome # "running"

\* import_data with a list naming 'all' has returned after the import of
\* its first type raised: the five later types were gone through all the same
C8_Witness ==
    /\ ipc = "done"
    /\ entry = "import_data"
    /\ data_types = <<"document", "all">>
    /\ Len(typeLog) = 6
    /\ typeLog[1].outcome = "raised"
    /\ typeLog[6].type = "community_report"

\* the known types import_data was asked for
RequestedKnown ==
    IF AllTypesRequested THEN KnownTypes
    ELSE {data_types[n] : n \in 1..Len(data_types)} \cap KnownTypes

\* the entries of the type log for type t
LogOf(t) == {n \in 1..Len(typeLog) : typeLog[n].type = t}

\* C9: import_data returns a mapping with an entry for every requested known
\* type and no other: 0 when nothing was found for the type or its import
\* raised, otherwise the number of nodes committed for it; every requested
\* known type is gone through whatever happened to the ones before it.
C9_ResultMapping ==
    (entry = "import_data" /\ ipc = "done")
       => /\ DOMAIN results = RequestedKnown
          /\ \A t \in RequestedKnown :
                /\ LogOf(t) # {}
                /\ \A n \in LogOf(t) :
                      /\ typeLog[n].outcome \in {"empty", "raised", "imported"}
                      /\ results[t] = typeLog[n].after - typeLog[n].before
                      /\ typeLog[n].outcome \in {"empty", "raised"}
                            => results[t] = 0

\* a returned import_data with a type for which nothing was found, a type
\* with all its records committed and a type that lost a batch to a failure
C9_Witness ==
    /\ entry = "import_data"
    /\ ipc = "done"
    /\ faults = 1
    /\ \E t \in DOMAIN results :
          results[t] = 0 /\ \E n \in LogOf(t) : typeLog[n].outcome = "empty"
    /\ \E t \in DOMAIN results : results[t] = 2
    /\ \E t \in DOMAIN results :
          /\ results[t] = 0
          /\ \E n \in LogOf(t) : typeLog[n].outcome = "imported"

\* the place of a known type in the dependency order
PlaceOf(t) == CHOOSE n \in 1..Len(DependencyOrder) : DependencyOrder[n] = t

\* C28: whatever list of types import_data is given, no type has been
\* imported when a requested type that precedes it in the dependency order
\* is started.
C28_RequestedTypesInOrder ==
    entry = "import_data"
       => \A a, b \in 1..Len(typeLog) :
             (a < b /\ typeLog[a].outcome = "imported")
                => PlaceOf(typeLog[a].type) <= PlaceOf(typeLog[b].type)

-----------------------------------------------------------------------------
(* Properties of the converters, the id validator and the formatter *)

\* row m of the table has a null in a required column
HasNullRequired(table, t, m) ==
    \E f \in RequiredFields(t) : ~IsValidField(table.rows[m], f)

\* C11: convert either fails or returns records each holding every required
\* field of the type; a table with a null in a required column of any row,
\* of any type, makes convert fail with MISSING_FIELDS.
C11_ConvertedRecordsComplete ==
    call_fn = "convert"
       => \A n \in 1..Len(call_out) :
             LET r == call_out[n]
                 t == call_arg.t
                 table == call_arg.table
             IN /\ r.ok => \A m \in 1..Len(r.records) :
                              RequiredFields(t) \subseteq DOMAIN r.records[m]
                /\ (/\ RequiredFields(t) \subseteq table.columns
                    /\ \E m \in 1..Len(table.rows) : HasNullRequired(table, t, m))
                      => ~r.ok /\ r.code = "MISSING_FIELDS"

\* C12: for every declared numeric field, a value that can be coerced to the
\* declared kind is held coerced by the converted record, and a value that
\* cannot be coerced leaves the record without that field.
C12_NumericCoercion ==
    call_fn = "process_fields"
       => \A n \in 1..Len(call_out) :
             LET rec == call_out[n]
                 f == call_arg.field
                 v == call_arg.row[f]
                 kind == NumericKind(call_arg.t, f)
             IN v # None
                   => IF Coerce(kind, v) # None
                      THEN f \in DOMAIN rec /\ rec[f] = Coerce(kind, v)
                      ELSE f \notin DOMAIN rec

\* C13: validate_id_format raises ID_FORMAT exactly when the type has an id
\* rule and the id violates it: document and text_unit ids are at least 32
\* hexadecimal characters and nothing else, entity, community and
\* community_report ids parse as UUIDs, relationship and unknown types accept
\* every id.
C13_IdFormatRule ==
    call_fn = "validate_id_format"
       => \A n \in 1..Len(call_out) :
             LET t == call_arg.t
                 shape == IdShape(call_arg.id)
                 accepted == call_out[n]
             IN accepted <=>
                   CASE t \in {"document", "text_unit"} -> shape \in {"hex32", "hex40"}
                     [] t \in {"entity", "community", "community_report"} ->
                           shape \in {"uuid36", "hex32"}
                     [] OTHER -> TRUE

HasMember(rec) == Has(rec, "members") /\ rec["members"] \notin {None, "[]"}

\* C15: no community record without at least one member is returned by the
\* community converter or committed to the store by the batch importer.
C15_CommunityHasMembers ==
    /\ (call_fn = "convert" /\ call_arg.t = "community")
          => \A n \in 1..Len(call_out) :
                call_out[n].ok
                   => \A m \in 1..Len(call_out[n].records) :
                         HasMember(call_out[n].records[m])
    /\ \A n \in 1..Len(store) :
          (Has(store[n], "dgraph.type") /\ store[n]["dgraph.type"] = "Community")
             => HasMember(store[n])

RECURSIVE HoldsTimestamp(_)
\* a datetime is the value or is inside it, at any depth
HoldsTimestamp(v) ==
    \/ v.kind = "datetime"
    \/ \E n \in 1..Len(v.items) : HoldsTimestamp(v.items[n])

\* C22: the output of convert_to_dgraph_format for a record has no key type,
\* has the type-tag key, has no field whose input value was None or a blank
\* string and has every other field of the input; the value it stores for a
\* field, that is the result of convert_value, holds no timestamp at any
\* depth, inside tuples, sets, lists and maps included.
C22_FormatterOutput ==
    /\ (call_fn = "convert_to_dgraph_format" /\ ~call_arg0.isNone)
          => \A n \in 1..Len(call_out) :
                LET out == call_out[n]
                    item == call_arg0.item
                IN /\ ~Has(out, "type")
                   /\ Has(out, "dgraph.type")
                   /\ \A f \in DOMAIN item \ {"type"} :
                         IF item[f] = None \/ IsBlank(item[f])
                         THEN ~Has(out, f)
                         ELSE Has(out, f) /\ out[f] = item[f]
    /\ call_fn = "convert_value"
          => \A n \in 1..Len(call_out) : ~HoldsTimestamp(call_out[n])

\* row m of the table holds a text of fewer than lo or more than hi characters
TextOutside(table, m, lo, hi) ==
    /\ IsValidField(table.rows[m], "text")
    /\ (StrLen(table.rows[m]["text"]) < lo \/ StrLen(table.rows[m]["text"]) > hi)

\* C23: the text_unit converter returns no record whose text has more than
\* 10000 characters and fails with MAX_LENGTH on a table holding one, in any
\* row; the document converter fails with MIN_LENGTH on a document whose
\* content has fewer characters than the minimum of 1.
C23_LengthBounds ==
    call_fn = "convert"
       => \A n \in 1..Len(call_out) :
             LET r == call_out[n]
                 t == call_arg.t
                 table == call_arg.table
                 sound == /\ RequiredFields(t) \subseteq table.columns
                          /\ \A m \in 1..Len(table.rows) : ~HasNullRequired(table, t, m)
             IN /\ (t = "text_unit" /\ r.ok)
                      => \A m \in 1..Len(r.records) :
                            Has(r.records[m], "text")
                               => StrLen(r.records[m]["text"]) <= 10000
                /\ (/\ t = "text_unit" /\ sound
                    /\ \E m \in 1..Len(table.rows) : TextOutside(table, m, 0, 10000))
                      => ~r.ok /\ r.code = "MAX_LENGTH"
                /\ (/\ t = "document" /\ sound
                    /\ \E m \in 1..Len(table.rows) : TextOutside(table, m, 1, 10001))
                      => ~r.ok /\ r.code = "MIN_LENGTH"

====
